---- MODULE Spec2Model ----
(***************************************************************************)
(* Connect Four against a minimax opponent (src/connect_four.js).          *)
(*                                                                         *)
(* The source plays on a 6 x 7 board and searches MAX_DEPTH = 4 plies.     *)
(* The model keeps every literal of the code (the run length 4, the        *)
(* heuristic weights, the cell values) and checks a scaled-down program:   *)
(* the board is ROWS x COLS and the depth limit MAX_DEPTH, a constant of   *)
(* the build, is fixed by the initial state of each specification.         *)
(*                                                                         *)
(*   Spec        the game, one step per line read and one per callback     *)
(*   SpecFair    Spec with the fairness of the callback                    *)
(*   SpecSearch  the game with bestMove and minimax run statement by       *)
(*               statement on the shared board, a frame per activation     *)
(*   SpecBoards  arbitrary boards, for the functions that take any board   *)
(*   SpecEasy    bestMove's easy branch, one step per turn of              *)
(*               aStarSearch's loop                                        *)
(***************************************************************************)
EXTENDS Integers, Sequences, FiniteSets, TLC

EMPTY == 0
PLAYER == 1
OPPONENT == 2
ROWS == 4
COLS == 4

\* The depth limit of the game of Spec, and the largest one of SpecSearch.
GameDepth == 0
SearchDepth == 2

VARIABLES
    board,      \* the global board
    outcome,    \* "InProgress" until the game reports a result
    pc,         \* "prompt": a question waits for a line; "callback": the line
                \* has arrived and the callback is to run; "search": bestMove
                \* is running; "aiPart": bestMove has returned; "closed"
    input,      \* the line handed to the callback
    MAX_DEPTH,  \* the depth limit the program was built with
    stack,      \* the activations of bestMove and minimax, innermost first
    result,     \* what the last call of bestMove returned
    openList,   \* aStarSearch's open list
    closedList  \* aStarSearch's closed list

vars == << board, outcome, pc, input, MAX_DEPTH, stack, result, openList, closedList >>

\* The lists of aStarSearch, which only the easy branch of bestMove touches.
easyVars == << openList, closedList >>

\* JavaScript's Infinity: above every score heuristic can return.
Infinity == 1000000
\* checkWin's "return null".
null == -1
\* parseInt's NaN: every comparison with it is false.
NaN == -1000000

RowIx == 0 .. (ROWS - 1)
ColIx == 0 .. (COLS - 1)
Cells == RowIx \X ColIx

EmptyBoard == [r \in RowIx |-> [c \in ColIx |-> EMPTY]]

Max(a, b) == IF a >= b THEN a ELSE b
Min(a, b) == IF a <= b THEN a ELSE b

InBounds(r, c) == r >= 0 /\ r < ROWS /\ c >= 0 /\ c < COLS

(***************************************************************************)
(* Win detection.                                                          *)
(***************************************************************************)
\* Three cells in a line taken for a win.
checkDirection_three(b, row, col, player, dRow, dCol) ==
    \A i \in 0 .. 2 :
        LET r == row + i * dRow
            c == col + i * dCol
        IN  InBounds(r, c) /\ b[r][c] = player

checkDirection(b, row, col, player, dRow, dCol) ==
    \A i \in 0 .. 3 :
        LET r == row + i * dRow
            c == col + i * dCol
        IN  InBounds(r, c) /\ b[r][c] = player

checkWin(b, player) ==
    IF \E row \in RowIx : \E col \in ColIx :
           /\ b[row][col] = player
           /\ \/ checkDirection(b, row, col, player, 1, 0)
              \/ checkDirection(b, row, col, player, 0, 1)
              \/ checkDirection(b, row, col, player, 1, 1)
              \/ checkDirection(b, row, col, player, 1, -1)
    THEN player
    ELSE null

\* The bottom row tested in place of the top row.
isBoardFull_bottomRow(b) == \A c \in ColIx : b[ROWS - 1][c] # EMPTY

isBoardFull(b) == \A c \in ColIx : b[0][c] # EMPTY

(***************************************************************************)
(* The lowest Empty row of a column, scanning from row ROWS-1 up to row 0  *)
(* as the code's inner loops do; -1 when the loop finds none.              *)
(***************************************************************************)
RECURSIVE lowestEmptyFrom(_, _, _)
lowestEmptyFrom(b, col, row) ==
    IF row < 0 THEN -1
    ELSE IF b[row][col] = EMPTY THEN row
    ELSE lowestEmptyFrom(b, col, row - 1)

lowestEmpty(b, col) == lowestEmptyFrom(b, col, ROWS - 1)

RECURSIVE successorsFrom(_, _, _)
successorsFrom(b, player, col) ==
    IF col >= COLS THEN << >>
    ELSE LET row == lowestEmpty(b, col)
         IN  IF row >= 0
             THEN << [board |-> [b EXCEPT ![row][col] = player], move |-> col] >>
                      \o successorsFrom(b, player, col + 1)
             ELSE successorsFrom(b, player, col + 1)

generateSuccessors(b, player) == successorsFrom(b, player, 0)

(***************************************************************************)
(* Hard-mode heuristic.                                                    *)
(***************************************************************************)
Other(player) == IF player = PLAYER THEN OPPONENT ELSE PLAYER

\* The four (dRow, dCol) pairs of evaluateLine's directions array.
directions == << <<0, 1>>, <<1, 0>>, <<1, 1>>, <<1, -1>> >>

\* The window's i-th cell: its value when it is on the board, else offBoard,
\* which no count of evaluateLine counts.
offBoard == EMPTY - 1
\* A cell off the board counted as an Empty cell.
windowCell_offAsEmpty(b, row, col, d, i) ==
    LET r == row + i * d[1]
        c == col + i * d[2]
    IN  IF InBounds(r, c) THEN b[r][c] ELSE EMPTY

windowCell(b, row, col, d, i) ==
    LET r == row + i * d[1]
        c == col + i * d[2]
    IN  IF InBounds(r, c) THEN b[r][c] ELSE offBoard

window(b, row, col, d) == [i \in 0 .. 3 |-> windowCell(b, row, col, d, i)]

\* How many of the window's in-bounds cells hold the value v.
countIn(w, v) ==
    (IF w[0] = v THEN 1 ELSE 0) + (IF w[1] = v THEN 1 ELSE 0)
  + (IF w[2] = v THEN 1 ELSE 0) + (IF w[3] = v THEN 1 ELSE 0)

windowScore(w, player) ==
    LET countPlayer == countIn(w, player)
        countOpponent == countIn(w, Other(player))
        emptyCount == countIn(w, EMPTY)
        first == IF countPlayer = 3 /\ emptyCount = 1 THEN 100
                 ELSE IF countOpponent = 3 /\ emptyCount = 1 THEN -100
                 ELSE IF countPlayer = 2 /\ emptyCount = 2 THEN 10
                 ELSE IF countOpponent = 2 /\ emptyCount = 2 THEN -10
                 ELSE 0
        second == IF countPlayer = 1 /\ emptyCount = 3 THEN 5
                  ELSE IF countOpponent = 1 /\ emptyCount = 3 THEN -5
                  ELSE 0
    IN  first + second

lineScore(b, row, col, player, d) == windowScore(window(b, row, col, d), player)

evaluateLine(b, row, col, player) ==
    lineScore(b, row, col, player, directions[1])
  + lineScore(b, row, col, player, directions[2])
  + lineScore(b, row, col, player, directions[3])
  + lineScore(b, row, col, player, directions[4])

\* The Player's lines added where the code subtracts them.
cellScore_unsigned(b, row, col) ==
    IF b[row][col] = OPPONENT THEN evaluateLine(b, row, col, OPPONENT)
    ELSE IF b[row][col] = PLAYER THEN evaluateLine(b, row, col, PLAYER)
    ELSE 0

cellScore(b, row, col) ==
    IF b[row][col] = OPPONENT THEN evaluateLine(b, row, col, OPPONENT)
    ELSE IF b[row][col] = PLAYER THEN 0 - evaluateLine(b, row, col, PLAYER)
    ELSE 0

RECURSIVE heuristicFrom(_, _)
heuristicFrom(b, k) ==
    IF k >= ROWS * COLS THEN 0
    ELSE cellScore(b, k \div COLS, k % COLS) + heuristicFrom(b, k + 1)

heuristic(b) == heuristicFrom(b, 0)

(***************************************************************************)
(* minimax with the code's loops: every column in ascending order, every   *)
(* row of the column from the bottom up, a trial piece on each Empty cell  *)
(* met; "break" leaves the row loop only.                                  *)
(***************************************************************************)
cutoff(b, depth) ==
    \/ depth = 0
    \/ checkWin(b, PLAYER) # null
    \/ checkWin(b, OPPONENT) # null
    \/ isBoardFull(b)

RECURSIVE minimax(_, _, _, _, _), maxLoop(_, _, _, _, _, _, _), minLoop(_, _, _, _, _, _, _)
maxLoop(b, depth, alpha, beta, col, row, maxEval) ==
    IF col >= COLS THEN maxEval
    ELSE IF row < 0 THEN maxLoop(b, depth, alpha, beta, col + 1, ROWS - 1, maxEval)
    ELSE IF b[row][col] # EMPTY THEN maxLoop(b, depth, alpha, beta, col, row - 1, maxEval)
    ELSE LET eval == minimax([b EXCEPT ![row][col] = OPPONENT], depth - 1, alpha, beta, FALSE)
             newMax == Max(maxEval, eval)
             newAlpha == Max(alpha, eval)
         IN  IF beta <= newAlpha
             THEN maxLoop(b, depth, newAlpha, beta, col + 1, ROWS - 1, newMax)
             ELSE maxLoop(b, depth, newAlpha, beta, col, row - 1, newMax)

minLoop(b, depth, alpha, beta, col, row, minEval) ==
    IF col >= COLS THEN minEval
    ELSE IF row < 0 THEN minLoop(b, depth, alpha, beta, col + 1, ROWS - 1, minEval)
    ELSE IF b[row][col] # EMPTY THEN minLoop(b, depth, alpha, beta, col, row - 1, minEval)
    ELSE LET eval == minimax([b EXCEPT ![row][col] = PLAYER], depth - 1, alpha, beta, TRUE)
             newMin == Min(minEval, eval)
             newBeta == Min(beta, eval)
         IN  IF newBeta <= alpha
             THEN minLoop(b, depth, alpha, newBeta, col + 1, ROWS - 1, newMin)
             ELSE minLoop(b, depth, alpha, newBeta, col, row - 1, newMin)

minimax(b, depth, alpha, beta, isMaximizingPlayer) ==
    IF cutoff(b, depth) THEN heuristic(b)
    ELSE IF isMaximizingPlayer
         THEN maxLoop(b, depth, alpha, beta, 0, ROWS - 1, 0 - Infinity)
         ELSE minLoop(b, depth, alpha, beta, 0, ROWS - 1, Infinity)

\* bestMove, hard branch: the record (bestScore, move) after columns 0..col-1.
RECURSIVE bestMoveFrom(_, _, _, _)
bestMoveFrom(b, col, bestScore, move) ==
    IF col >= COLS THEN move
    ELSE LET row == lowestEmpty(b, col)
         IN  IF row < 0 THEN bestMoveFrom(b, col + 1, bestScore, move)
             ELSE LET score == minimax([b EXCEPT ![row][col] = OPPONENT],
                                       MAX_DEPTH, 0 - Infinity, Infinity, FALSE)
                  IN  IF score > bestScore
                      THEN bestMoveFrom(b, col + 1, score, col)
                      ELSE bestMoveFrom(b, col + 1, bestScore, move)

bestMove(b) == bestMoveFrom(b, 0, 0 - Infinity, -1)

\* The records of bestMove's loop after all columns: for the reference
\* properties, the score bestMove gives a column.
trialScore(b, col) ==
    minimax([b EXCEPT ![lowestEmpty(b, col)][col] = OPPONENT],
            MAX_DEPTH, 0 - Infinity, Infinity, FALSE)

(***************************************************************************)
(* placePiece: the first Empty cell of the column met from row ROWS-1 up   *)
(* takes the piece; when the loop meets none the board is left as it was.  *)
(***************************************************************************)
\* The column scanned from row 0 down: the highest Empty cell.
placeRow_fromTop(b, col) ==
    IF \E r \in RowIx : b[r][col] = EMPTY
    THEN CHOOSE r \in RowIx :
             b[r][col] = EMPTY /\ \A q \in RowIx : b[q][col] = EMPTY => r <= q
    ELSE -1

\* The loop written "row > 0": the top row is never reached.
placeRow_belowTop(b, col) ==
    IF lowestEmpty(b, col) > 0 THEN lowestEmpty(b, col) ELSE -1

placeRow(b, col) == lowestEmpty(b, col)

placePiece(b, col, player) ==
    IF col \in ColIx /\ placeRow(b, col) >= 0
    THEN [b EXCEPT ![placeRow(b, col)][col] = player]
    ELSE b

(***************************************************************************)
(* parseInt on the line read from the terminal, a sequence of characters,  *)
(* with no radix given: leading blanks are skipped, one sign is read, a    *)
(* prefix 0x or 0X selects radix 16, then the longest run of digits of     *)
(* the radix is read; NaN when that run is empty.                          *)
(***************************************************************************)
Digits == << "0", "1", "2", "3", "4", "5", "6", "7", "8", "9",
             "a", "b", "c", "d", "e", "f" >>
UpperDigits == << "0", "1", "2", "3", "4", "5", "6", "7", "8", "9",
                  "A", "B", "C", "D", "E", "F" >>
IsDigit(ch, radix) == \E d \in 1 .. radix : Digits[d] = ch \/ UpperDigits[d] = ch
DigitVal(ch) == (CHOOSE d \in 1 .. 16 : Digits[d] = ch \/ UpperDigits[d] = ch) - 1

RECURSIVE skipBlanks(_)
skipBlanks(s) == IF Len(s) > 0 /\ Head(s) = " " THEN skipBlanks(Tail(s)) ELSE s

RECURSIVE digitRun(_, _, _)
digitRun(s, acc, radix) ==
    IF Len(s) > 0 /\ IsDigit(Head(s), radix)
    THEN digitRun(Tail(s), acc * radix + DigitVal(Head(s)), radix)
    ELSE acc

parseInt(line) ==
    LET t == skipBlanks(line)
        negative == Len(t) > 0 /\ Head(t) = "-"
        u == IF Len(t) > 0 /\ (Head(t) = "-" \/ Head(t) = "+") THEN Tail(t) ELSE t
        hex == Len(u) >= 2 /\ u[1] = "0" /\ (u[2] = "x" \/ u[2] = "X")
        radix == IF hex THEN 16 ELSE 10
        v == IF hex THEN Tail(Tail(u)) ELSE u
    IN  IF Len(v) = 0 \/ ~IsDigit(Head(v), radix) THEN NaN
        ELSE IF negative THEN 0 - digitRun(v, 0, radix) ELSE digitRun(v, 0, radix)

\* The upper limit included.
inRange_inclusive(column) == column # NaN /\ column >= 0 /\ column <= COLS

\* The test of line 255; a comparison with NaN is false.
inRange(column) == column # NaN /\ column >= 0 /\ column < COLS

\* The lines a player may type: every column, the first number past the
\* last column, and malformed or decorated text.
Inputs ==
    { << Digits[c + 1] >> : c \in 0 .. Min(COLS, 9) }
    \cup { << "-", "1" >>, << "x" >>, << >>, << "1", "0" >>, << "0", "x" >>,
           << " ", "1", "x" >>, << "0", "x", "2" >> }

NoLine == << "<none>" >>

start ==
    /\ board = EmptyBoard
    /\ outcome = "InProgress"
    /\ pc = "prompt"
    /\ input = NoLine
    /\ stack = << >>
    /\ result = null
    /\ openList = << >>
    /\ closedList = << >>

Init == start /\ MAX_DEPTH = GameDepth

\* rl.question: the player types a line and the callback is scheduled.
ReadLine ==
    /\ pc = "prompt"
    /\ \E line \in Inputs : input' = line
    /\ pc' = "callback"
    /\ UNCHANGED << board, outcome, MAX_DEPTH, stack, result, easyVars >>

\* playGame() called on every path.
nextPc_always(o) == "prompt"

\* After rl.close() and return no question is asked again; playGame() asks one.
nextPc(o) == IF o = "InProgress" THEN "prompt" ELSE "closed"

\* The win test of lines 259-263 left out.
playerResult_noWinTest(b) ==
    IF isBoardFull(b) THEN "Draw"
    ELSE "InProgress"

\* Lines 259-269: the result after the player's piece, the win test first.
playerResult(b) ==
    IF checkWin(b, PLAYER) = PLAYER THEN "PlayerWin"
    ELSE IF isBoardFull(b) THEN "Draw"
    ELSE "InProgress"

\* The full-board test before the win test.
opponentResult_fullFirst(b) ==
    IF isBoardFull(b) THEN "Draw"
    ELSE IF checkWin(b, OPPONENT) = OPPONENT THEN "OpponentWin"
    ELSE "InProgress"

\* Lines 276-286: the result after the opponent's piece, the win test first.
opponentResult(b) ==
    IF checkWin(b, OPPONENT) = OPPONENT THEN "OpponentWin"
    ELSE IF isBoardFull(b) THEN "Draw"
    ELSE "InProgress"

(***************************************************************************)
(* The callback of rl.question in playGame, from the line read to the      *)
(* return: lines 253-293.                                                  *)
(***************************************************************************)
playGame ==
    /\ pc = "callback"
    /\ input' = NoLine
    /\ \E col \in { parseInt(input) } :
           IF ~inRange(col)
           THEN \* "Invalid column, try again."
                /\ board' = board
                /\ outcome' = "InProgress"
           ELSE \E b1 \in { placePiece(board, col, PLAYER) } :
                IF playerResult(b1) # "InProgress"
                THEN /\ board' = b1
                     /\ outcome' = playerResult(b1)
                ELSE \E b2 \in { placePiece(b1, bestMove(b1), OPPONENT) } :
                     /\ board' = b2
                     /\ outcome' = opponentResult(b2)
    /\ pc' = nextPc(outcome')
    /\ UNCHANGED << MAX_DEPTH, stack, result, easyVars >>

Next == ReadLine \/ playGame

Spec == Init /\ [][Next]_vars

\* The callback of a question runs once its line has arrived.  In Spec the
\* steps that take pc from "callback" to "prompt" or "closed" are the steps
\* of playGame, so the fairness of playGame is stated on pc alone.
callbackRuns == pc = "callback" /\ pc' \in { "prompt", "closed" }

SpecFair == Spec /\ WF_pc(callbackRuns)

(***************************************************************************)
(* The same game with the search run statement by statement.  bestMove     *)
(* and minimax work on the one shared board: a trial piece is written      *)
(* into it before the recursive call and taken out after the call has      *)
(* returned.  Each activation is a frame: its arguments, the position of   *)
(* its loops (col, row), its running best value, and, for the properties,  *)
(* the board as it was when the activation began and whether one of its    *)
(* pruning tests has succeeded.                                            *)
(***************************************************************************)
\* The lines typed in SpecSearch: the columns 0 .. MaxTyped and one
\* malformed line.
MaxTyped == 1

SearchInputs ==
    { << Digits[c + 1] >> : c \in 0 .. Min(MaxTyped, 9) } \cup { << "x" >> }

ReadLineSearch ==
    /\ pc = "prompt"
    /\ \E line \in SearchInputs : input' = line
    /\ pc' = "callback"
    /\ UNCHANGED << board, outcome, MAX_DEPTH, stack, result, easyVars >>

\* The loops "for col ... for row from ROWS-1 down ... if Empty": the next
\* Empty cell at or after (col, row), as << col, row >>; col = COLS when the
\* loops end without one.
RECURSIVE scan(_, _, _)
scan(b, col, row) ==
    IF col >= COLS THEN << COLS, ROWS - 1 >>
    ELSE IF row < 0 THEN scan(b, col + 1, ROWS - 1)
    ELSE IF b[row][col] = EMPTY THEN << col, row >>
    ELSE scan(b, col, row - 1)

\* bestScore started at Infinity.
bestMoveFrame_fromInfinity(b) ==
    [fn |-> "bestMove", depth |-> MAX_DEPTH, alpha |-> 0 - Infinity, beta |-> Infinity,
     isMax |-> TRUE, col |-> 0, row |-> ROWS - 1, best |-> Infinity, move |-> -1,
     leaf |-> FALSE, pruned |-> FALSE, entry |-> b]

bestMoveFrame(b) ==
    [fn |-> "bestMove", depth |-> MAX_DEPTH, alpha |-> 0 - Infinity, beta |-> Infinity,
     isMax |-> TRUE, col |-> 0, row |-> ROWS - 1, best |-> 0 - Infinity, move |-> -1,
     leaf |-> FALSE, pruned |-> FALSE, entry |-> b]

\* The activation minimax(b, depth, alpha, beta, isMax) at its first line.
minimaxFrame(b, depth, alpha, beta, isMax) ==
    [fn |-> "minimax", depth |-> depth, alpha |-> alpha, beta |-> beta,
     isMax |-> isMax, col |-> 0, row |-> ROWS - 1,
     best |-> IF isMax THEN 0 - Infinity ELSE Infinity, move |-> -1,
     leaf |-> cutoff(b, depth), pruned |-> FALSE, entry |-> b]

\* The piece a frame tries: bestMove and a maximizing layer try Opponent's.
trialSide(f) == IF f.fn = "bestMove" \/ f.isMax THEN OPPONENT ELSE PLAYER

\* The call a frame makes after writing its trial piece.
childFrame(f, b) ==
    IF f.fn = "bestMove"
    THEN minimaxFrame(b, MAX_DEPTH, 0 - Infinity, Infinity, FALSE)
    ELSE minimaxFrame(b, f.depth - 1, f.alpha, f.beta, ~f.isMax)

\* The undo left out: the trial piece stays on the board.
unplace_forgotten(b, row, col) == b

\* board[row][col] = EMPTY after the call.
unplace(b, row, col) == [b EXCEPT ![row][col] = EMPTY]

\* bestMove's test written "score >= bestScore": a later column with an
\* equal score replaces the current best.
afterCall_lastWins(f, eval) ==
    IF f.fn = "bestMove"
    THEN [f EXCEPT !.best = IF eval >= f.best THEN eval ELSE f.best,
                   !.move = IF eval >= f.best THEN f.col ELSE f.move,
                   !.col = f.col + 1, !.row = ROWS - 1]
    ELSE IF f.isMax
    THEN LET alpha == Max(f.alpha, eval)
         IN  IF f.beta <= alpha
             THEN [f EXCEPT !.best = Max(f.best, eval), !.alpha = alpha,
                            !.pruned = TRUE, !.col = f.col + 1, !.row = ROWS - 1]
             ELSE [f EXCEPT !.best = Max(f.best, eval), !.alpha = alpha,
                            !.row = f.row - 1]
    ELSE LET beta == Min(f.beta, eval)
         IN  IF beta <= f.alpha
             THEN [f EXCEPT !.best = Min(f.best, eval), !.beta = beta,
                            !.pruned = TRUE, !.col = f.col + 1, !.row = ROWS - 1]
             ELSE [f EXCEPT !.best = Min(f.best, eval), !.beta = beta,
                            !.row = f.row - 1]

\* The caller's frame once the call has returned eval: lines 223-227 for
\* bestMove, 183-185 and 199-201 for minimax.
afterCall(f, eval) ==
    IF f.fn = "bestMove"
    THEN [f EXCEPT !.best = IF eval > f.best THEN eval ELSE f.best,
                   !.move = IF eval > f.best THEN f.col ELSE f.move,
                   !.col = f.col + 1, !.row = ROWS - 1]
    ELSE IF f.isMax
    THEN LET alpha == Max(f.alpha, eval)
         IN  IF f.beta <= alpha
             THEN [f EXCEPT !.best = Max(f.best, eval), !.alpha = alpha,
                            !.pruned = TRUE, !.col = f.col + 1, !.row = ROWS - 1]
             ELSE [f EXCEPT !.best = Max(f.best, eval), !.alpha = alpha,
                            !.row = f.row - 1]
    ELSE LET beta == Min(f.beta, eval)
         IN  IF beta <= f.alpha
             THEN [f EXCEPT !.best = Min(f.best, eval), !.beta = beta,
                            !.pruned = TRUE, !.col = f.col + 1, !.row = ROWS - 1]
             ELSE [f EXCEPT !.best = Min(f.best, eval), !.beta = beta,
                            !.row = f.row - 1]

\* The callback up to the call of bestMove: lines 253-271.
playGameBegin ==
    /\ pc = "callback"
    /\ input' = NoLine
    /\ \E col \in { parseInt(input) } :
           IF ~inRange(col)
           THEN /\ board' = board
                /\ outcome' = "InProgress"
                /\ pc' = "prompt"
                /\ stack' = stack
           ELSE \E b1 \in { placePiece(board, col, PLAYER) } :
                /\ board' = b1
                /\ outcome' = playerResult(b1)
                /\ IF playerResult(b1) # "InProgress"
                   THEN pc' = nextPc(outcome') /\ stack' = stack
                   ELSE pc' = "search" /\ stack' = << bestMoveFrame(b1) >>
    /\ UNCHANGED << MAX_DEPTH, result, easyVars >>

\* The innermost activation finds the next Empty cell of its loops, writes
\* its trial piece into the board and calls minimax.
Descend ==
    /\ pc = "search"
    /\ LET f == Head(stack)
           cell == scan(board, f.col, f.row)
       IN  /\ ~f.leaf
           /\ cell[1] < COLS
           /\ \E b \in { [board EXCEPT ![cell[2]][cell[1]] = trialSide(f)] } :
                  /\ board' = b
                  /\ stack' = << childFrame(f, b),
                                 [f EXCEPT !.col = cell[1], !.row = cell[2]] >>
                               \o Tail(stack)
    /\ UNCHANGED << outcome, pc, input, MAX_DEPTH, result, easyVars >>

\* The innermost minimax returns, at its first line with heuristic(board) or
\* after its loops with its running value; its caller takes the trial piece
\* out and goes on with its loop.
Return ==
    /\ pc = "search"
    /\ LET f == Head(stack)
           caller == stack[2]
       IN  /\ f.fn = "minimax"
           /\ f.leaf \/ scan(board, f.col, f.row)[1] >= COLS
           /\ \E eval \in { IF f.leaf THEN heuristic(board) ELSE f.best } :
                  stack' = << afterCall(caller, eval) >> \o Tail(Tail(stack))
           /\ board' = unplace(board, caller.row, caller.col)
    /\ UNCHANGED << outcome, pc, input, MAX_DEPTH, result, easyVars >>

\* bestMove's loop over the columns ends: return move.
bestMoveReturn ==
    /\ pc = "search"
    /\ LET f == Head(stack)
       IN  /\ f.fn = "bestMove"
           /\ scan(board, f.col, f.row)[1] >= COLS
           /\ result' = f.move
    /\ stack' = << >>
    /\ pc' = "aiPart"
    /\ UNCHANGED << board, outcome, input, MAX_DEPTH, easyVars >>

\* The rest of the callback: lines 272-288.
playGameEnd ==
    /\ pc = "aiPart"
    /\ \E b2 \in { placePiece(board, result, OPPONENT) } :
           /\ board' = b2
           /\ outcome' = opponentResult(b2)
    /\ pc' = nextPc(outcome')
    /\ UNCHANGED << input, MAX_DEPTH, stack, result, easyVars >>

InitSearch == start /\ MAX_DEPTH \in 0 .. SearchDepth

NextSearch ==
    \/ ReadLineSearch
    \/ playGameBegin
    \/ Descend
    \/ Return
    \/ bestMoveReturn
    \/ playGameEnd

SpecSearch == InitSearch /\ [][NextSearch]_vars

(***************************************************************************)
(* Arbitrary boards, for the functions that take any board: every step     *)
(* writes a piece of either side into any Empty cell, up to MaxPieces.     *)
(***************************************************************************)
MaxPieces == 4

NumPieces(b, side) == Cardinality({ cell \in Cells : b[cell[1]][cell[2]] = side })

SetCell ==
    /\ NumPieces(board, PLAYER) + NumPieces(board, OPPONENT) < MaxPieces
    /\ \E cell \in Cells : \E side \in { PLAYER, OPPONENT } :
           /\ board[cell[1]][cell[2]] = EMPTY
           /\ board' = [board EXCEPT ![cell[1]][cell[2]] = side]
    /\ UNCHANGED << outcome, pc, input, MAX_DEPTH, stack, result, easyVars >>

SpecBoards == Init /\ [][SetCell]_vars

(***************************************************************************)
(* bestMove's easy branch: aStarSearch on copies of the board.  A node is  *)
(* the object the code builds: board, move, g, f, and h in the start node; *)
(* for the properties each node carries also "first", the column of the    *)
(* first drop on the way the search took from the start board to it.       *)
(***************************************************************************)
\* Line 72 calls heuristicEasy, which the source file does not define;
\* the design describes it as the evaluator of hard mode reused.
heuristicEasy(b) == heuristic(b)

\* Lines 72-73.
startNode(b) ==
    [board |-> b, move |-> null, g |-> 0, h |-> heuristicEasy(b),
     f |-> 0 + heuristicEasy(b), first |-> null]

\* openList.sort((a, b) => a.f - b.f): ascending f, equal f in list order.
RECURSIVE insertByF(_, _)
insertByF(sorted, node) ==
    IF sorted = << >> THEN << node >>
    ELSE IF Head(sorted).f <= node.f
         THEN << Head(sorted) >> \o insertByF(Tail(sorted), node)
         ELSE << node >> \o sorted

RECURSIVE sortByF(_)
sortByF(list) ==
    IF list = << >> THEN << >>
    ELSE insertByF(sortByF(SubSeq(list, 1, Len(list) - 1)), list[Len(list)])

\* list.find(node => JSON.stringify(node.board) === JSON.stringify(b)):
\* the position of the first node with that board, 0 when there is none.
findBoard(list, b) ==
    IF \E i \in 1 .. Len(list) : list[i].board = b
    THEN CHOOSE i \in 1 .. Len(list) :
             list[i].board = b /\ \A j \in 1 .. (i - 1) : list[j].board # b
    ELSE 0

\* The test written "successor.f <= existingNode.f".
pushes_orEqual(open, successor) ==
    LET existing == findBoard(open, successor.board)
    IN  existing = 0 \/ successor.f <= open[existing].f

\* Lines 93-94: the successor goes to the open list when no open node has
\* its board or the one that has it has a greater f.
pushes(open, successor) ==
    LET existing == findBoard(open, successor.board)
    IN  existing = 0 \/ successor.f < open[existing].f

\* Lines 85-97: the open list after the successors k, k+1, ... of
\* currentNode have been looked at.
RECURSIVE expand(_, _, _, _, _)
expand(open, closed, currentNode, successors, k) ==
    IF k > Len(successors) THEN open
    ELSE LET s == successors[k]
             successor ==
                 [board |-> s.board, move |-> s.move,
                  g |-> currentNode.g + 1, f |-> currentNode.g + 1,
                  first |-> IF currentNode.g = 0 THEN s.move ELSE currentNode.first]
         IN  IF findBoard(closed, s.board) # 0
             THEN expand(open, closed, currentNode, successors, k + 1)
             ELSE IF pushes(open, successor)
             THEN expand(Append(open, successor), closed, currentNode, successors, k + 1)
             ELSE expand(open, closed, currentNode, successors, k + 1)

\* Math.floor(Math.random() * COLS): Math.random() is in [0, 1).
randomColumns == 0 .. (COLS - 1)

\* bestMove(board, 'easy') is called: lines 210-211 and 70-74.
bestMoveEasy ==
    /\ pc = "easyCall"
    /\ openList' = << startNode(board) >>
    /\ closedList' = << >>
    /\ pc' = "aStar"
    /\ UNCHANGED << board, outcome, input, MAX_DEPTH, stack, result >>

\* One turn of the while loop, lines 76-97; when the node taken has an
\* Opponent line, aStarSearch returns it and bestMove returns its move.
aStarLoop ==
    /\ pc = "aStar"
    /\ Len(openList) > 0
    /\ \E sorted \in { sortByF(openList) } :
       \E currentNode \in { Head(sorted) } :
       \E closed \in { Append(closedList, currentNode) } :
           /\ closedList' = closed
           /\ IF checkWin(currentNode.board, OPPONENT) # null
              THEN /\ openList' = Tail(sorted)
                   /\ result' = currentNode.move
                   /\ pc' = "easyDone"
              ELSE /\ \E rest \in { Tail(sorted) } :
                      \E successors \in { generateSuccessors(currentNode.board, OPPONENT) } :
                          openList' = expand(rest, closed, currentNode, successors, 1)
                   /\ result' = result
                   /\ pc' = pc
    /\ UNCHANGED << board, outcome, input, MAX_DEPTH, stack >>

\* The open list is empty: aStarSearch returns null, line 99, and bestMove
\* returns a random column, line 212.
aStarExhausted ==
    /\ pc = "aStar"
    /\ Len(openList) = 0
    /\ \E column \in randomColumns : result' = column
    /\ pc' = "easyDone"
    /\ UNCHANGED << board, outcome, input, MAX_DEPTH, stack, easyVars >>

\* The boards bestMove is called on: the positions along one line of play,
\* Player first, each followed by at most MaxEasyDrops further drops of
\* either side.
EasyGame == << 3, 1, 0, 1, 1, 2, 1, 3, 2 >>
MaxEasyDrops == 1

RECURSIVE afterDrops(_)
afterDrops(n) ==
    IF n = 0 THEN EmptyBoard
    ELSE placePiece(afterDrops(n - 1), EasyGame[n], IF n % 2 = 1 THEN PLAYER ELSE OPPONENT)

RECURSIVE withDrops(_, _)
withDrops(boards, k) ==
    IF k = 0 THEN boards
    ELSE boards \cup withDrops({ placePiece(b, c, side) :
                                    b \in boards, c \in ColIx, side \in { PLAYER, OPPONENT } },
                               k - 1)

EasyBoards == withDrops({ afterDrops(n) : n \in 0 .. Len(EasyGame) }, MaxEasyDrops)

InitEasy ==
    /\ board \in EasyBoards
    /\ outcome = "InProgress"
    /\ pc = "easyCall"
    /\ input = NoLine
    /\ MAX_DEPTH = GameDepth
    /\ stack = << >>
    /\ result = null
    /\ openList = << >>
    /\ closedList = << >>

NextEasy == bestMoveEasy \/ aStarLoop \/ aStarExhausted

\* A function that has been called runs on to its return.
SpecEasy == InitEasy /\ [][NextEasy]_vars /\ WF_vars(NextEasy)

(***************************************************************************)
(* Vocabulary of the properties.                                           *)
(***************************************************************************)
\* The sets of four cells of the board that lie contiguous on one line.
LineDirs == { << 0, 1 >>, << 1, 0 >>, << 1, 1 >>, << 1, -1 >> }
Lines ==
    { L \in { { << cell[1] + i * d[1], cell[2] + i * d[2] >> : i \in 0 .. 3 } :
                  cell \in Cells, d \in LineDirs } : L \subseteq Cells }

HasFour(b, side) == \E L \in Lines : \A cell \in L : b[cell[1]][cell[2]] = side

AllFilled(b) == \A cell \in Cells : b[cell[1]][cell[2]] # EMPTY

ColumnFull(b, col) == \A r \in RowIx : b[r][col] # EMPTY

\* No piece of a column has an Empty cell below it.
Gravity(b) ==
    \A c \in ColIx : \A r \in RowIx :
        b[r][c] # EMPTY => \A below \in RowIx : below > r => b[below][c] # EMPTY

\* The line denotes no column of the board.
NotAColumn(line) ==
    LET n == parseInt(line) IN n = NaN \/ n < 0 \/ n >= COLS

\* Every Player cell exchanged with an Opponent cell.
swap(b) == [r \in RowIx |-> [c \in ColIx |->
               IF b[r][c] = PLAYER THEN OPPONENT
               ELSE IF b[r][c] = OPPONENT THEN PLAYER
               ELSE EMPTY]]

(***************************************************************************)
(* C3: a line that denotes a number below 0, a number at or above COLS, or *)
(* no number is rejected: the callback leaves the board as it was, makes   *)
(* no AI move, and asks for a player move again.                           *)
(***************************************************************************)
C3_InvalidInputRejected ==
    [][(pc = "callback" /\ NotAColumn(input))
          => (board' = board /\ outcome' = "InProgress" /\ pc' = "prompt")]_vars

\* The callback is about to run on a line that parses to a number outside
\* the columns, on a board where the player has already moved.
C3_Witness ==
    /\ pc = "callback"
    /\ NotAColumn(input)
    /\ parseInt(input) # NaN
    /\ NumPieces(board, PLAYER) > 0

(***************************************************************************)
(* C4: the engine never proceeds to the AI's move in a turn in which no    *)
(* Player piece was placed: whenever a callback adds an Opponent piece it  *)
(* has added exactly one Player piece too.                                 *)
(***************************************************************************)
C4_NoAiMoveWithoutPlayerPiece ==
    [][NumPieces(board', OPPONENT) > NumPieces(board, OPPONENT)
          => NumPieces(board', PLAYER) = NumPieces(board, PLAYER) + 1]_vars

(***************************************************************************)
(* C5: when a callback fills the last Empty cell, the outcome is the win   *)
(* of the side that moved last if that side has four in a row, and Draw    *)
(* otherwise.                                                              *)
(***************************************************************************)
OpponentMoved == NumPieces(board', OPPONENT) > NumPieces(board, OPPONENT)

C5_LastCellWinBeforeDraw ==
    [][(AllFilled(board') /\ ~AllFilled(board))
          => outcome' = IF OpponentMoved
                        THEN (IF HasFour(board', OPPONENT) THEN "OpponentWin" ELSE "Draw")
                        ELSE (IF HasFour(board', PLAYER) THEN "PlayerWin" ELSE "Draw")]_vars

\* The last cell was filled and completed a four-in-a-row.
C5_Witness ==
    /\ AllFilled(board)
    /\ outcome \in { "PlayerWin", "OpponentWin" }

(***************************************************************************)
(* C6: once PlayerWin, OpponentWin or Draw is reported, no line is read,   *)
(* no move is made and the board never changes again.                      *)
(***************************************************************************)
C6_TerminalAbsorbing ==
    [][outcome # "InProgress"
          => (board' = board /\ outcome' = outcome /\ pc' = "closed")]_vars

C6_Witness == outcome # "InProgress" /\ pc = "closed"

(***************************************************************************)
(* C7: in every state of a game the non-empty cells of each column are     *)
(* contiguous from the bottom row upward.                                  *)
(***************************************************************************)
C7_GravityInvariant == Gravity(board)

\* A column holds pieces of both sides, stacked.
C7_Witness ==
    \E c \in ColIx :
        /\ board[ROWS - 1][c] = PLAYER
        /\ board[ROWS - 2][c] = OPPONENT
        /\ board[ROWS - 3][c] # EMPTY

(***************************************************************************)
(* C8: in every state of a game, isBoardFull holds exactly when            *)
(* generateSuccessors returns the empty sequence.                          *)
(***************************************************************************)
C8_FullIffNoSuccessors ==
    /\ isBoardFull(board) <=> (generateSuccessors(board, PLAYER) = << >>)
    /\ isBoardFull(board) <=> (generateSuccessors(board, OPPONENT) = << >>)

C8_Witness == isBoardFull(board) /\ generateSuccessors(board, OPPONENT) = << >>

(***************************************************************************)
(* C9: for every board and side, checkWin returns the side exactly when    *)
(* four cells of that side lie contiguous on a horizontal, vertical or     *)
(* diagonal line, and null otherwise.                                      *)
(***************************************************************************)
C9_CheckWinExact ==
    \A side \in { PLAYER, OPPONENT } :
        checkWin(board, side) = IF HasFour(board, side) THEN side ELSE null

C9_Witness ==
    /\ checkWin(board, PLAYER) = PLAYER
    /\ \E L \in Lines :
           /\ \A cell \in L : board[cell[1]][cell[2]] = PLAYER
           /\ \E a \in L, b \in L : a[1] # b[1] /\ a[2] # b[2]

(***************************************************************************)
(* C10: for every board b, heuristic(swap(b)) = -heuristic(b).             *)
(***************************************************************************)
C10_HeuristicAntisymmetric == heuristic(swap(board)) = 0 - heuristic(board)

\* A board with pieces of both sides and a non-zero score.
C10_Witness ==
    /\ NumPieces(board, PLAYER) > 0
    /\ NumPieces(board, OPPONENT) > 1
    /\ heuristic(board) > 0

(***************************************************************************)
(* C1: when a call of minimax or of bestMove returns, every cell of the    *)
(* board has the value it had when the call began.                         *)
(***************************************************************************)
C1_BoardRestoredOnReturn ==
    [][Len(stack') < Len(stack) => board = Head(stack).entry]_vars

\* A maximizing layer whose pruning test has succeeded is about to return
\* to a layer that is itself inside bestMove's trial.
C1_Witness ==
    /\ pc = "search"
    /\ Len(stack) >= 3
    /\ Head(stack).pruned
    /\ scan(board, Head(stack).col, Head(stack).row)[1] >= COLS

(***************************************************************************)
(* C2: on a gravity-respecting board that is not full, bestMove returns a  *)
(* column of the board that has an Empty cell.                             *)
(***************************************************************************)
C2_BestMoveLegal ==
    (pc = "aiPart" /\ Gravity(board) /\ ~AllFilled(board))
        => (result \in ColIx /\ ~ColumnFull(board, result))

\* bestMove has returned on a board with a full column, after a search
\* of two plies.
C2_Witness ==
    /\ pc = "aiPart"
    /\ MAX_DEPTH = SearchDepth
    /\ \E c \in ColIx : ColumnFull(board, c)
    /\ result \in ColIx

(***************************************************************************)
(* C11: on a board that is not full, bestMove returns the lowest-index     *)
(* column with an Empty cell whose minimax score after the trial Opponent  *)
(* drop is the greatest among the columns with an Empty cell; the column   *)
(* is a function of the board and the depth limit.                         *)
(***************************************************************************)
LegalColumns(b) == { c \in ColIx : ~ColumnFull(b, c) }

\* The least argument at which the function score takes its greatest value.
LeftmostMaximum(score) ==
    CHOOSE c \in DOMAIN score :
        \A d \in DOMAIN score :
            /\ score[d] <= score[c]
            /\ d < c => score[d] < score[c]

C11_LeftmostMaximum ==
    (pc = "aiPart" /\ ~AllFilled(board))
        => \E score \in { [c \in LegalColumns(board) |-> trialScore(board, c)] } :
               result = LeftmostMaximum(score)

\* bestMove has returned the first of two columns that share the greatest
\* score, after a search of two plies.
C11_Witness ==
    /\ pc = "aiPart"
    /\ MAX_DEPTH = SearchDepth
    /\ \E d \in LegalColumns(board) :
           /\ d > result
           /\ result \in LegalColumns(board)
           /\ trialScore(board, d) = trialScore(board, result)

(***************************************************************************)
(* C12: when aStarSearch has returned null, the column bestMove returns    *)
(* in easy mode is a column of the board with an Empty cell, whatever      *)
(* Math.random() gives.                                                    *)
(***************************************************************************)
\* aStarSearch has returned the node it took last from the open list.
NodeReturned ==
    /\ pc = "easyDone"
    /\ closedList # << >>
    /\ checkWin(closedList[Len(closedList)].board, OPPONENT) # null

C12_FallbackLegal ==
    (pc = "easyDone" /\ ~NodeReturned)
        => (result \in ColIx /\ ~ColumnFull(board, result))

(***************************************************************************)
(* C13: every trial piece minimax writes goes to the lowest Empty cell of  *)
(* its column, so that a column gets one trial per layer and no trial      *)
(* piece has an Empty cell below it.                                       *)
(***************************************************************************)
C13_TrialAtLowestEmpty ==
    [][(pc = "search" /\ Len(stack') > Len(stack) /\ Head(stack).fn = "minimax")
          => stack'[2].row = lowestEmpty(board, stack'[2].col)]_vars

(***************************************************************************)
(* C14: a layer of minimax whose test beta <= alpha has succeeded makes no *)
(* further trial placement: its next step is its return.                   *)
(***************************************************************************)
C14_NoTrialAfterPruning ==
    [][(pc = "search" /\ Head(stack).fn = "minimax" /\ Head(stack).pruned)
          => Len(stack') < Len(stack)]_vars

(***************************************************************************)
(* C15: on a gravity-respecting board that is not full, bestMove returns   *)
(* the column of the reference search: depth-limited minimax without       *)
(* pruning over drops to the lowest Empty cell only, one per column with   *)
(* an Empty cell in ascending order, the same cutoff test, heuristic at    *)
(* the cutoffs, depth MAX_DEPTH after the trial drop, leftmost maximum.    *)
(***************************************************************************)
drop(b, col, side) == [b EXCEPT ![lowestEmpty(b, col)][col] = side]

RECURSIVE referenceMinimax(_, _, _)
referenceMinimax(b, depth, isMaximizingPlayer) ==
    IF cutoff(b, depth) THEN heuristic(b)
    ELSE LET value == [c \in LegalColumns(b) |->
                          referenceMinimax(drop(b, c, IF isMaximizingPlayer
                                                      THEN OPPONENT ELSE PLAYER),
                                           depth - 1, ~isMaximizingPlayer)]
         IN  IF isMaximizingPlayer
             THEN CHOOSE v \in { value[c] : c \in LegalColumns(b) } :
                      \A c \in LegalColumns(b) : value[c] <= v
             ELSE CHOOSE v \in { value[c] : c \in LegalColumns(b) } :
                      \A c \in LegalColumns(b) : value[c] >= v

referenceMove(b) ==
    LeftmostMaximum([c \in LegalColumns(b) |->
                        referenceMinimax(drop(b, c, OPPONENT), MAX_DEPTH, FALSE)])

C15_SameAsReferenceSearch ==
    (pc = "aiPart" /\ Gravity(board) /\ ~AllFilled(board))
        => \E move \in { referenceMove(board) } : result = move

(***************************************************************************)
(* C16: heuristic(board) is the sum, over the occupied cells and the four  *)
(* directions, of the table value of the window of four cells that starts  *)
(* at the cell: +100, +10, +5 for 3, 2, 1 Opponent cells with the rest     *)
(* Empty, -100, -10, -5 for the same numbers of Player cells, and 0 for a  *)
(* window with both sides, with four pieces, or with a cell off the board. *)
(***************************************************************************)
WindowCells(cell, d) == { << cell[1] + i * d[1], cell[2] + i * d[2] >> : i \in 0 .. 3 }

Weight(n) == IF n = 3 THEN 100 ELSE IF n = 2 THEN 10 ELSE IF n = 1 THEN 5 ELSE 0

TableDelta(b, cell, d) ==
    LET W == WindowCells(cell, d)
        opp == Cardinality({ x \in W \cap Cells : b[x[1]][x[2]] = OPPONENT })
        pla == Cardinality({ x \in W \cap Cells : b[x[1]][x[2]] = PLAYER })
    IN  IF ~(W \subseteq Cells) THEN 0
        ELSE IF opp > 0 /\ pla > 0 THEN 0
        ELSE IF opp + pla = 4 THEN 0
        ELSE Weight(opp) - Weight(pla)

RECURSIVE SumOver(_, _, _)
SumOver(b, anchors, acc) ==
    IF anchors = { } THEN acc
    ELSE LET a == CHOOSE x \in anchors : TRUE
         IN  SumOver(b, anchors \ { a }, acc + TableDelta(b, a[1], a[2]))

TableSum(b) ==
    SumOver(b, { a \in Cells \X LineDirs : b[a[1][1]][a[1][2]] # EMPTY }, 0)

C16_HeuristicIsTableSum == heuristic(board) = TableSum(board)

\* Three Opponent cells and an Empty one in a window, a second window that
\* holds both sides, and a piece whose horizontal window leaves the board.
C16_Witness ==
    /\ \E a \in Cells \X LineDirs : TableDelta(board, a[1], a[2]) = 100
    /\ \E a \in Cells \X LineDirs :
           /\ WindowCells(a[1], a[2]) \subseteq Cells
           /\ \E x, y \in WindowCells(a[1], a[2]) :
                  board[x[1]][x[2]] = PLAYER /\ board[y[1]][y[2]] = OPPONENT
    /\ \E r \in RowIx : board[r][COLS - 1] # EMPTY

(***************************************************************************)
(* C17: when aStarSearch returns a node reached by one or more Opponent    *)
(* drops, the column bestMove returns in easy mode is the column of the    *)
(* first drop on the way from the current board to that node.              *)
(***************************************************************************)
C17_FirstDropReturned ==
    (NodeReturned /\ closedList[Len(closedList)].g >= 1)
        => result = closedList[Len(closedList)].first

(***************************************************************************)
(* C18: aStarSearch terminates, returning a node whose board has an        *)
(* Opponent four-in-a-row or, with the open list empty, null; no board is  *)
(* taken from the open list twice and no two nodes of the open list have   *)
(* equal boards.  Termination is stated by a variant: every step of the    *)
(* call lowers Remaining, a natural number, and under the fairness of      *)
(* SpecEasy a step is taken until the call has returned.                   *)
(***************************************************************************)
DistinctBoards(list) ==
    \A i, j \in 1 .. Len(list) : i # j => list[i].board # list[j].board

\* The number of boards that Opponent drops can make of b, b included: a
\* column with k Empty cells can take 0 .. k drops.
RECURSIVE BoardsBelow(_, _)
BoardsBelow(b, col) ==
    IF col >= COLS THEN 1
    ELSE (Cardinality({ r \in RowIx : b[r][col] = EMPTY }) + 1) * BoardsBelow(b, col + 1)

\* What is left to do: the boards not yet taken from the open list, and
\* the call and the return themselves.
Remaining ==
    2 * (BoardsBelow(board, 0) - Len(closedList))
  + (IF pc = "easyCall" THEN 2 ELSE IF pc = "aStar" THEN 1 ELSE 0)

C19_InProgressNoLineNotFull ==
    outcome = "InProgress"
        => /\ ~HasFour(board, PLAYER)
           /\ ~HasFour(board, OPPONENT)
           /\ ~AllFilled(board)

\* The game waits for a move with two Empty cells left.
C19_Witness ==
    /\ pc = "prompt"
    /\ outcome = "InProgress"
    /\ NumPieces(board, EMPTY) = 2

(***************************************************************************)
(* C20: every callback on a line that denotes a column adds at least one   *)
(* piece to the board, and a game in which such lines keep arriving        *)
(* reaches PlayerWin, OpponentWin or Draw.                                 *)
(***************************************************************************)
ColumnTyped == pc = "callback" /\ inRange(parseInt(input))

Pieces(b) == NumPieces(b, PLAYER) + NumPieces(b, OPPONENT)

C20_GameEnds ==
    /\ [][ColumnTyped => Pieces(board') > Pieces(board)]_vars
    /\ ([]<>ColumnTyped) => <>(outcome # "InProgress")

\* The callback is about to run on a column that is full: the turn in
\* which only the opponent adds a piece.
C20_Witness ==
    /\ ColumnTyped
    /\ ColumnFull(board, parseInt(input))

\* The two translations of the search agree: the statement-by-statement run
\* returns what the function bestMove computes.
SearchAgrees == pc = "aiPart" => result = bestMove(board)
====
